---- MODULE Spec2Model ----
(***************************************************************************)
(* Model of the OpenID Connect relying-party client of src/src/lib.rs:     *)
(* Client, AuthorizationRequest (the authorization URL builder) and the    *)
(* URL it emits; discovery, user info and token requests as Client and the *)
(* crate examples use them.                                                *)
(*                                                                         *)
(* Strings are sequences of atoms.  Punctuation that the URL encoder       *)
(* treats specially (" ", ":", "/", "@", "+") is an atom of its own, so    *)
(* joining, encoding and decimal formatting are computed, not assumed.     *)
(* Option<T> is a sequence of length 0 (None) or 1 (Some).                 *)
(***************************************************************************)
EXTENDS Integers, Sequences, FiniteSets

VARIABLES client, reqs, logs, outs, ret, net, held

vars == <<client, reqs, logs, outs, ret, net, held>>

(* ret: what the last call on the client or on a value obtained from it    *)
(* returned; net: the HTTP requests handed to the injected transport, in   *)
(* order; held: the ID-token claims values the program has obtained.       *)
others == <<ret, net, held>>

(* Number of builder calls applied to one authorization request. *)
MaxCalls == 2

(* Number of HTTP requests after which no further operation is started. *)
MaxRequests == 3

(* ret before any call has returned *)
NoReturn == [kind |-> "none"]

None == <<>>
Some(x) == <<x>>
IsSome(o) == Len(o) = 1
Unwrap(o) == o[1]

SP == " "

(***************************************************************************)
(* Input domains.                                                          *)
(***************************************************************************)
ReqIds == {"r1", "r2"}

ClientIdValue == <<"aaa">>
ClientSecretValue == <<"bbb">>
IssuerValue == <<"https", ":", "/", "/", "example">>
AuthUrlValue == <<"https", ":", "/", "/", "example", "/", "authorize">>
TokenUrlValue == <<"https", ":", "/", "/", "example", "/", "token">>

RedirectUrls == { <<"http", ":", "/", "/", "localhost", ":", "8888", "/">> }

CsrfTokens == { <<"CSRF123">> }
Nonces == { <<"NONCE456">>, <<"NONCE9">> }

ResponseTypes == {"Code", "IdToken", "Token"}

HybridLists ==
    { <<"Code", "IdToken">>, <<"Token", "Code", "Code", "IdToken">>, <<>> }

(* AuthenticationFlow<RT>: the fields a variant does not carry hold a default *)
AuthorizationCode == [kind |-> "AuthorizationCode", include_token |-> FALSE, response_types |-> <<>>]
Implicit(include_token) == [kind |-> "Implicit", include_token |-> include_token, response_types |-> <<>>]
Hybrid(response_types) == [kind |-> "Hybrid", include_token |-> FALSE, response_types |-> response_types]

AuthenticationFlows ==
    { AuthorizationCode } \cup { Implicit(b) : b \in BOOLEAN } \cup { Hybrid(l) : l \in HybridLists }

OPENID_SCOPE == <<"openid">>

Scopes == { <<"email">>, <<"profile">> }
ExtraNames == { <<"foo">>, <<"claims">> }
ExtraValues == { <<"bar">> }
AcrValues == { <<"urn", ":", "mace", ":", "silver">>, <<"phr">> }
Locales == { <<"fr-CA">>, <<"en">> }
Displays == { <<"touch">> }
Prompts == { <<"login">>, <<"consent">> }
LoginHints == { <<"foo", "@", "bar.com">> }
PkceChallenges == { [challenge |-> <<"CHAL">>, method |-> <<"S256">>] }
(* compact JWS strings: header.payload.signature, each base64url text *)
CompactJws ==
    { <<"eyJh", ".", "eyJp", ".", "gb5H">>, <<"eyJh", ".", "eyJz", ".", "c2ln">> }
Durations ==
    { [secs |-> 0, nanos |-> 500000000], [secs |-> 1800, nanos |-> 999999999] }

(***************************************************************************)
(* String helpers.                                                         *)
(***************************************************************************)
RECURSIVE JoinWith(_, _)
JoinWith(entries, sep) ==
    IF Len(entries) = 0 THEN <<>>
    ELSE IF Len(entries) = 1 THEN entries[1]
    ELSE entries[1] \o <<sep>> \o JoinWith(Tail(entries), sep)

(* mutant: the entries are separated by commas *)
join_vec_comma(entries) == JoinWith(entries, ",")

join_vec(entries) == JoinWith(entries, SP)

Digit(d) == <<"0", "1", "2", "3", "4", "5", "6", "7", "8", "9">>[d + 1]

RECURSIVE ToDecimal(_)
ToDecimal(n) ==
    IF n < 10 THEN <<Digit(n)>>
    ELSE ToDecimal(n \div 10) \o <<Digit(n % 10)>>

(* mutant: the duration is rounded to the nearest second *)
as_secs_rounded(d) == IF 2 * d.nanos >= 1000000000 THEN d.secs + 1 ELSE d.secs

as_secs(d) == d.secs

VariantName(rt) ==
    CASE rt = "Code" -> <<"code">>
      [] rt = "IdToken" -> <<"id_token">>
      [] rt = "Token" -> <<"token">>

(***************************************************************************)
(* JWT container: parsing keeps the signing input as received and decodes  *)
(* the three segments; serialising re-encodes the signature.               *)
(***************************************************************************)
Base64Table ==
    { [text |-> "eyJh", bytes |-> "{alg:RS256}"],
      [text |-> "eyJp", bytes |-> "{iss:example,sub:subject}"],
      [text |-> "eyJz", bytes |-> "{iss:example,sub:other}"],
      [text |-> "gb5H", bytes |-> "sig-1"],
      [text |-> "c2ln", bytes |-> "sig-2"] }

Base64Decode(text) == (CHOOSE e \in Base64Table : e.text = text).bytes

Base64Encode(bytes) == (CHOOSE e \in Base64Table : e.bytes = bytes).text

(* the segments of s between the "." atoms *)
RECURSIVE SplitDots(_)
SplitDots(s) ==
    IF \A i \in 1..Len(s) : s[i] # "."
    THEN <<s>>
    ELSE LET d == CHOOSE i \in 1..Len(s) : s[i] = "." /\ \A j \in 1..(i - 1) : s[j] # "."
         IN  <<SubSeq(s, 1, d - 1)>> \o SplitDots(SubSeq(s, d + 1, Len(s)))

ParseIdToken(compact) ==
    LET parts == SplitDots(compact)
    IN  [header |-> Base64Decode(parts[1][1]),
         payload |-> Base64Decode(parts[2][1]),
         signing_input |-> parts[1] \o <<".">> \o parts[2],
         signature |-> Base64Decode(parts[3][1])]

IdTokens == { ParseIdToken(c) : c \in CompactJws }

IdTokenToString(t) == t.signing_input \o <<".">> \o <<Base64Encode(t.signature)>>

(* application/x-www-form-urlencoded byte serialisation of one atom *)
EncodeAtom(a) ==
    CASE a = " " -> "+"
      [] a = ":" -> "%3A"
      [] a = "/" -> "%2F"
      [] a = "@" -> "%40"
      [] a = "+" -> "%2B"
      [] OTHER -> a

Encode(s) == [i \in 1..Len(s) |-> EncodeAtom(s[i])]

(***************************************************************************)
(* oauth2::Client and oauth2::AuthorizationRequest as this crate uses them *)
(***************************************************************************)
OAuth2ClientNew(client_id, client_secret, auth_url, token_url) ==
    [client_id |-> client_id, client_secret |-> client_secret,
     auth_url |-> auth_url, token_url |-> token_url,
     auth_type |-> "BasicAuth", redirect_url |-> None]

InnerAuthorizeUrl(c, state) ==
    [auth_url |-> c.auth_url, client_id |-> c.client_id,
     extra_params |-> <<>>, pkce_challenge |-> None,
     redirect_url |-> c.redirect_url, response_type |-> <<"code">>,
     scopes |-> <<>>, state |-> state]

InnerAddScope(inner, scope) ==
    [inner EXCEPT !.scopes = Append(@, scope)]

InnerAddExtraParam(inner, name, value) ==
    [inner EXCEPT !.extra_params = Append(@, [name |-> name, value |-> value])]

InnerSetPkceChallenge(inner, pkce) ==
    [inner EXCEPT !.pkce_challenge = Some(pkce)]

InnerSetResponseType(inner, response_type) ==
    [inner EXCEPT !.response_type = response_type]

Pair(name, value) == [name |-> name, value |-> value]

EncodePair(p) == [name |-> Encode(p.name), value |-> Encode(p.value)]

InnerUrl(inner) ==
    LET pairs ==
            << Pair(<<"response_type">>, inner.response_type),
               Pair(<<"client_id">>, inner.client_id),
               Pair(<<"state">>, inner.state) >>
            \o (IF IsSome(inner.pkce_challenge)
                THEN << Pair(<<"code_challenge">>, Unwrap(inner.pkce_challenge).challenge),
                        Pair(<<"code_challenge_method">>, Unwrap(inner.pkce_challenge).method) >>
                ELSE <<>>)
            \o (IF IsSome(inner.redirect_url)
                THEN << Pair(<<"redirect_uri">>, Unwrap(inner.redirect_url)) >>
                ELSE <<>>)
            \o (IF Len(inner.scopes) > 0
                THEN << Pair(<<"scope">>, JoinWith(inner.scopes, SP)) >>
                ELSE <<>>)
            \o inner.extra_params
    IN  [url |-> [base |-> inner.auth_url,
                  query |-> [i \in 1..Len(pairs) |-> EncodePair(pairs[i])]],
         state |-> inner.state]

(***************************************************************************)
(* Client                                                                  *)
(***************************************************************************)
ClientNew(client_id, client_secret, issuer, auth_url, token_url, userinfo_endpoint, jwks) ==
    [oauth2_client |-> OAuth2ClientNew(client_id, client_secret, auth_url, token_url),
     refresh_oauth2_client |-> OAuth2ClientNew(client_id, client_secret, auth_url, token_url),
     client_id |-> client_id,
     client_secret |-> client_secret,
     issuer |-> issuer,
     userinfo_endpoint |-> userinfo_endpoint,
     jwks |-> jwks]

new_client ==
    ClientNew(ClientIdValue, Some(ClientSecretValue), IssuerValue, AuthUrlValue,
              Some(TokenUrlValue), None, <<>>)

AuthTypes == {"BasicAuth", "RequestBody"}

(* mutant: only the client used for code exchange gets the new auth type *)
set_auth_type_code_client(c, auth_type) ==
    [c EXCEPT !.oauth2_client.auth_type = auth_type]

set_auth_type(c, auth_type) ==
    [c EXCEPT !.oauth2_client.auth_type = auth_type,
              !.refresh_oauth2_client.auth_type = auth_type]

set_redirect_uri(c, redirect_uri) ==
    [c EXCEPT !.oauth2_client.redirect_url = Some(redirect_uri),
              !.refresh_oauth2_client.redirect_url = Some(redirect_uri)]

(***************************************************************************)
(* AuthorizationRequest                                                    *)
(***************************************************************************)
(* mutant: the new scope is put in front of the earlier ones *)
add_scope_prepend(req, scope) ==
    [req EXCEPT !.inner.scopes = <<scope>> \o @]

add_scope(req, scope) == [req EXCEPT !.inner = InnerAddScope(@, scope)]

add_extra_param(req, name, value) ==
    [req EXCEPT !.inner = InnerAddExtraParam(@, name, value)]

set_pkce_challenge(req, pkce_code_challenge) ==
    [req EXCEPT !.inner = InnerSetPkceChallenge(@, pkce_code_challenge)]

add_auth_context_value(req, acr_value) ==
    [req EXCEPT !.acr_values = Append(@, acr_value)]

add_claims_locale(req, claims_locale) ==
    [req EXCEPT !.claims_locales = Append(@, claims_locale)]

set_display(req, display) == [req EXCEPT !.display = Some(display)]

(* mutant: the hint is the token without its signature *)
set_id_token_hint_unsigned(req, id_token_hint) ==
    [req EXCEPT !.id_token_hint = Some(id_token_hint.signing_input)]

set_id_token_hint(req, id_token_hint) ==
    [req EXCEPT !.id_token_hint = Some(IdTokenToString(id_token_hint))]

(* mutant: the hint is stored in the display field *)
set_login_hint_as_display(req, login_hint) == [req EXCEPT !.display = Some(login_hint)]

set_login_hint(req, login_hint) == [req EXCEPT !.login_hint = Some(login_hint)]

set_max_age(req, max_age) == [req EXCEPT !.max_age = Some(max_age)]

(* mutant: the prompt goes into the list the caller's extras are kept in *)
add_prompt_as_extra(req, prompt) ==
    [req EXCEPT !.inner = InnerAddExtraParam(@, <<"prompt">>, prompt)]

add_prompt(req, prompt) == [req EXCEPT !.prompts = Append(@, prompt)]

add_ui_locale(req, ui_locale) == [req EXCEPT !.ui_locales = Append(@, ui_locale)]

(* mutant: the nonce field is filled with the CSRF state *)
authorize_url_nonce_from_state(c, authentication_flow, state, nonce) ==
    add_scope(
        [inner |-> InnerAuthorizeUrl(c.oauth2_client, state),
         acr_values |-> <<>>,
         authentication_flow |-> authentication_flow,
         claims_locales |-> <<>>,
         display |-> None,
         id_token_hint |-> None,
         login_hint |-> None,
         max_age |-> None,
         nonce |-> state,
         prompts |-> <<>>,
         ui_locales |-> <<>>],
        OPENID_SCOPE)

authorize_url(c, authentication_flow, state, nonce) ==
    add_scope(
        [inner |-> InnerAuthorizeUrl(c.oauth2_client, state),
         acr_values |-> <<>>,
         authentication_flow |-> authentication_flow,
         claims_locales |-> <<>>,
         display |-> None,
         id_token_hint |-> None,
         login_hint |-> None,
         max_age |-> None,
         nonce |-> nonce,
         prompts |-> <<>>,
         ui_locales |-> <<>>],
        OPENID_SCOPE)

MapVariantName(rts) == [i \in 1..Len(rts) |-> VariantName(rts[i])]

(* mutant: Implicit(true) lists the access token first *)
ResponseTypeOf_TokenFirst(flow) ==
    CASE flow.kind = "AuthorizationCode" -> VariantName("Code")
      [] flow.kind = "Implicit" ->
            IF flow.include_token
            THEN JoinWith(MapVariantName(<<"Token", "IdToken">>), SP)
            ELSE VariantName("IdToken")
      [] flow.kind = "Hybrid" -> JoinWith(MapVariantName(flow.response_types), SP)

RECURSIVE Dedup(_)
Dedup(s) ==
    IF Len(s) = 0 THEN <<>>
    ELSE LET front == Dedup(SubSeq(s, 1, Len(s) - 1))
             last == s[Len(s)]
         IN  IF \E i \in 1..Len(front) : front[i] = last THEN front ELSE Append(front, last)

(* mutant: Hybrid response types are deduplicated before joining *)
ResponseTypeOf_Dedup(flow) ==
    CASE flow.kind = "AuthorizationCode" -> VariantName("Code")
      [] flow.kind = "Implicit" ->
            IF flow.include_token
            THEN JoinWith(MapVariantName(<<"IdToken", "Token">>), SP)
            ELSE VariantName("IdToken")
      [] flow.kind = "Hybrid" -> JoinWith(MapVariantName(Dedup(flow.response_types)), SP)

ResponseTypeOf(flow) ==
    CASE flow.kind = "AuthorizationCode" -> VariantName("Code")
      [] flow.kind = "Implicit" ->
            IF flow.include_token
            THEN JoinWith(MapVariantName(<<"IdToken", "Token">>), SP)
            ELSE VariantName("IdToken")
      [] flow.kind = "Hybrid" -> JoinWith(MapVariantName(flow.response_types), SP)

OidcParams(req, inner0) ==
    LET i1 == IF Len(req.acr_values) > 0
              THEN InnerAddExtraParam(inner0, <<"acr_values">>, join_vec(req.acr_values))
              ELSE inner0
        i2 == IF Len(req.claims_locales) > 0
              THEN InnerAddExtraParam(i1, <<"claims_locales">>, join_vec(req.claims_locales))
              ELSE i1
        i3 == IF IsSome(req.display)
              THEN InnerAddExtraParam(i2, <<"display">>, Unwrap(req.display))
              ELSE i2
        i4 == IF IsSome(req.id_token_hint)
              THEN InnerAddExtraParam(i3, <<"id_token_hint">>, Unwrap(req.id_token_hint))
              ELSE i3
        i5 == IF IsSome(req.login_hint)
              THEN InnerAddExtraParam(i4, <<"login_hint">>, Unwrap(req.login_hint))
              ELSE i4
        i6 == IF IsSome(req.max_age)
              THEN InnerAddExtraParam(i5, <<"max_age">>, ToDecimal(as_secs(Unwrap(req.max_age))))
              ELSE i5
        i7 == IF Len(req.prompts) > 0
              THEN InnerAddExtraParam(i6, <<"prompt">>, join_vec(req.prompts))
              ELSE i6
        i8 == IF Len(req.ui_locales) > 0
              THEN InnerAddExtraParam(i7, <<"ui_locales">>, join_vec(req.ui_locales))
              ELSE i7
    IN  i8

(* mutant: nonce is appended after the optional OIDC parameters *)
url_nonce_last(req) ==
    LET response_type == ResponseTypeOf(req.authentication_flow)
        inner0 == OidcParams(req, InnerSetResponseType(req.inner, response_type))
        r == InnerUrl(InnerAddExtraParam(inner0, <<"nonce">>, req.nonce))
    IN  [url |-> r.url, csrf_state |-> r.state, nonce |-> req.nonce]

(* mutant: nonce is put in front of the caller's extra parameters *)
url_nonce_first(req) ==
    LET response_type == ResponseTypeOf(req.authentication_flow)
        inner0 == [InnerSetResponseType(req.inner, response_type) EXCEPT
                      !.extra_params = <<Pair(<<"nonce">>, req.nonce)>> \o @]
        r == InnerUrl(OidcParams(req, inner0))
    IN  [url |-> r.url, csrf_state |-> r.state, nonce |-> req.nonce]

(* mutant: a nonce given as an extra parameter replaces the request's own *)
url_caller_nonce_wins(req) ==
    LET response_type == ResponseTypeOf(req.authentication_flow)
        given == \E i \in 1..Len(req.inner.extra_params) :
                    req.inner.extra_params[i].name = <<"nonce">>
        inner0 == IF given
                  THEN InnerSetResponseType(req.inner, response_type)
                  ELSE InnerAddExtraParam(InnerSetResponseType(req.inner, response_type),
                                          <<"nonce">>, req.nonce)
        r == InnerUrl(OidcParams(req, inner0))
    IN  [url |-> r.url, csrf_state |-> r.state, nonce |-> req.nonce]

url(req) ==
    LET response_type == ResponseTypeOf(req.authentication_flow)
        inner0 == InnerAddExtraParam(InnerSetResponseType(req.inner, response_type),
                                     <<"nonce">>, req.nonce)
        r == InnerUrl(OidcParams(req, inner0))
    IN  [url |-> r.url, csrf_state |-> r.state, nonce |-> req.nonce]

(***************************************************************************)
(* State machine.  reqs[r] is the request builder r (None before           *)
(* authorize_url and after url() has consumed it), outs[r] the triple      *)
(* url() returned, logs[r] the calls the program made for r.               *)
(***************************************************************************)
Call(op, a, b, d) == [op |-> op, a |-> a, b |-> b, d |-> d]

NoDuration == [secs |-> 0, nanos |-> 0]

Init ==
    /\ client = new_client
    /\ reqs = [r \in ReqIds |-> None]
    /\ logs = [r \in ReqIds |-> [given |-> None, calls |-> <<>>, nonce_fn_calls |-> 0]]
    /\ outs = [r \in ReqIds |-> None]
    /\ ret = NoReturn
    /\ net = <<>>
    /\ held = {}

(* set_redirect_uri takes the client by value: no request may borrow it *)
SetRedirectUri(u) ==
    /\ \A r \in ReqIds : reqs[r] = None
    /\ client' = set_redirect_uri(client, u)
    /\ UNCHANGED <<reqs, logs, outs, others>>

(* state and nonce are what state_fn and nonce_fn return when authorize_url *)
(* invokes them; nonce_fn_calls counts the invocations of r's nonce_fn     *)
AuthorizeUrl(r, flow, state, nonce) ==
    /\ reqs[r] = None
    /\ outs[r] = None
    /\ reqs' = [reqs EXCEPT ![r] = Some(authorize_url(client, flow, state, nonce))]
    /\ logs' = [logs EXCEPT ![r].given =
                    Some([client |-> client, flow |-> flow, state |-> state, nonce |-> nonce]),
                             ![r].nonce_fn_calls = @ + 1]
    /\ UNCHANGED <<client, outs, others>>

(* one builder call: the request is moved into the method and returned *)
Builder(r, new, call) ==
    /\ IsSome(reqs[r])
    /\ Len(logs[r].calls) < MaxCalls
    /\ reqs' = [reqs EXCEPT ![r] = Some(new)]
    /\ logs' = [logs EXCEPT ![r].calls = Append(@, call)]
    /\ UNCHANGED <<client, outs, others>>

(* mutant: the requests built from one client share their scopes *)
AddScope_shared(r, scope) ==
    /\ IsSome(reqs[r])
    /\ Len(logs[r].calls) < MaxCalls
    /\ reqs' = [q \in ReqIds |->
                  IF IsSome(reqs[q]) THEN Some(add_scope(Unwrap(reqs[q]), scope)) ELSE reqs[q]]
    /\ logs' = [logs EXCEPT ![r].calls =
                    Append(@, Call("add_scope", scope, <<>>, NoDuration))]
    /\ UNCHANGED <<client, outs, others>>

AddScope(r, scope) ==
    /\ IsSome(reqs[r])
    /\ Builder(r, add_scope(Unwrap(reqs[r]), scope), Call("add_scope", scope, <<>>, NoDuration))

AddExtraParam(r, name, value) ==
    /\ IsSome(reqs[r])
    /\ Builder(r, add_extra_param(Unwrap(reqs[r]), name, value),
               Call("add_extra_param", name, value, NoDuration))

SetPkceChallenge(r, pkce) ==
    /\ IsSome(reqs[r])
    /\ Builder(r, set_pkce_challenge(Unwrap(reqs[r]), pkce),
               Call("set_pkce_challenge", pkce.challenge, pkce.method, NoDuration))

AddAuthContextValue(r, acr) ==
    /\ IsSome(reqs[r])
    /\ Builder(r, add_auth_context_value(Unwrap(reqs[r]), acr),
               Call("add_auth_context_value", acr, <<>>, NoDuration))

AddClaimsLocale(r, locale) ==
    /\ IsSome(reqs[r])
    /\ Builder(r, add_claims_locale(Unwrap(reqs[r]), locale),
               Call("add_claims_locale", locale, <<>>, NoDuration))

SetDisplay(r, display) ==
    /\ IsSome(reqs[r])
    /\ Builder(r, set_display(Unwrap(reqs[r]), display),
               Call("set_display", display, <<>>, NoDuration))

(* the token is deserialised from its compact form, then given as the hint *)
SetIdTokenHint(r, compact) ==
    /\ IsSome(reqs[r])
    /\ Builder(r, set_id_token_hint(Unwrap(reqs[r]), ParseIdToken(compact)),
               Call("set_id_token_hint", compact, <<>>, NoDuration))

SetLoginHint(r, hint) ==
    /\ IsSome(reqs[r])
    /\ Builder(r, set_login_hint(Unwrap(reqs[r]), hint),
               Call("set_login_hint", hint, <<>>, NoDuration))

SetMaxAge(r, max_age) ==
    /\ IsSome(reqs[r])
    /\ Builder(r, set_max_age(Unwrap(reqs[r]), max_age),
               Call("set_max_age", <<>>, <<>>, max_age))

AddPrompt(r, prompt) ==
    /\ IsSome(reqs[r])
    /\ Builder(r, add_prompt(Unwrap(reqs[r]), prompt),
               Call("add_prompt", prompt, <<>>, NoDuration))

AddUiLocale(r, locale) ==
    /\ IsSome(reqs[r])
    /\ Builder(r, add_ui_locale(Unwrap(reqs[r]), locale),
               Call("add_ui_locale", locale, <<>>, NoDuration))

(* mutant: the redirect URI is read from the client as it is when url() runs *)
Url_reads_client(r) ==
    /\ IsSome(reqs[r])
    /\ outs' = [outs EXCEPT ![r] =
                    Some(url([Unwrap(reqs[r]) EXCEPT
                                !.inner.redirect_url = client.oauth2_client.redirect_url]))]
    /\ reqs' = [reqs EXCEPT ![r] = None]
    /\ UNCHANGED <<client, logs, others>>

(* mutant: url() asks nonce_fn for the nonce it emits and returns *)
Url_fresh_nonce(r) ==
    /\ IsSome(reqs[r])
    /\ LET fresh == CHOOSE n \in Nonces : n # Unwrap(reqs[r]).nonce
       IN  outs' = [outs EXCEPT ![r] = Some(url([Unwrap(reqs[r]) EXCEPT !.nonce = fresh]))]
    /\ reqs' = [reqs EXCEPT ![r] = None]
    /\ logs' = [logs EXCEPT ![r].nonce_fn_calls = @ + 1]
    /\ UNCHANGED <<client, others>>

Url(r) ==
    /\ IsSome(reqs[r])
    /\ outs' = [outs EXCEPT ![r] = Some(url(Unwrap(reqs[r])))]
    /\ reqs' = [reqs EXCEPT ![r] = None]
    /\ UNCHANGED <<client, logs, others>>

RequestStep(r) ==
    \/ \E flow \in AuthenticationFlows, state \in CsrfTokens, nonce \in Nonces :
            AuthorizeUrl(r, flow, state, nonce)
    \/ \E scope \in Scopes : AddScope(r, scope)
    \/ \E name \in ExtraNames, value \in ExtraValues : AddExtraParam(r, name, value)
    \/ \E pkce \in PkceChallenges : SetPkceChallenge(r, pkce)
    \/ \E acr \in AcrValues : AddAuthContextValue(r, acr)
    \/ \E locale \in Locales : AddClaimsLocale(r, locale)
    \/ \E display \in Displays : SetDisplay(r, display)
    \/ \E compact \in CompactJws : SetIdTokenHint(r, compact)
    \/ \E hint \in LoginHints : SetLoginHint(r, hint)
    \/ \E max_age \in Durations : SetMaxAge(r, max_age)
    \/ \E prompt \in Prompts : AddPrompt(r, prompt)
    \/ \E locale \in Locales : AddUiLocale(r, locale)
    \/ Url(r)

Next ==
    \/ \E u \in RedirectUrls : SetRedirectUri(u)
    \/ RequestStep("r1")

Spec == Init /\ [][Next]_vars

(***************************************************************************)
(* Two requests built side by side from one client.  The program may also  *)
(* derive a reconfigured client from a clone while requests borrow the     *)
(* original; client is the value later authorize_url calls are made on.    *)
(***************************************************************************)
PairFlows == { AuthorizationCode, Hybrid(<<"Code", "IdToken">>) }

CloneSetRedirectUri(u) ==
    /\ client' = set_redirect_uri(client, u)
    /\ UNCHANGED <<reqs, logs, outs, others>>

PairStep(r) ==
    \/ \E flow \in PairFlows, state \in CsrfTokens, nonce \in Nonces :
            AuthorizeUrl(r, flow, state, nonce)
    \/ AddScope(r, <<"email">>)
    \/ AddExtraParam(r, <<"foo">>, <<"bar">>)
    \/ AddPrompt(r, <<"login">>)
    \/ Url(r)

NextPair ==
    \/ \E u \in RedirectUrls : CloneSetRedirectUri(u)
    \/ \E r \in ReqIds : PairStep(r)

SpecPair == Init /\ [][NextPair]_vars

(***************************************************************************)
(* A request whose caller passes add_extra_param names that the builder    *)
(* manages itself.                                                         *)
(***************************************************************************)
ManagedExtraNames ==
    { <<"nonce">>, <<"state">>, <<"scope">>, <<"response_type">>, <<"display">> }

ConflictFlows == { AuthorizationCode, Implicit(TRUE) }

ConflictStep(r) ==
    \/ \E flow \in ConflictFlows, state \in CsrfTokens, nonce \in Nonces :
            AuthorizeUrl(r, flow, state, nonce)
    \/ AddScope(r, <<"email">>)
    \/ \E name \in ManagedExtraNames, value \in ExtraValues : AddExtraParam(r, name, value)
    \/ \E display \in Displays : SetDisplay(r, display)
    \/ Url(r)

NextConflict ==
    \/ \E u \in RedirectUrls : SetRedirectUri(u)
    \/ ConflictStep("r1")

SpecConflict == Init /\ [][NextConflict]_vars

(***************************************************************************)
(* Result<T, E>                                                            *)
(***************************************************************************)
Ok(v) == [ok |-> TRUE, value |-> v, error |-> "", detail |-> ""]
Err(e, d) == [ok |-> FALSE, value |-> None, error |-> e, detail |-> d]

(***************************************************************************)
(* Provider side: what the injected transport answers.                     *)
(***************************************************************************)
CONFIG_URL_SUFFIX == <<".well-known", "/", "openid-configuration">>

OtherIssuerValue == <<"https", ":", "/", "/", "other">>
UserInfoUrlValue == <<"https", ":", "/", "/", "example", "/", "userinfo">>
JwksUrlValue == <<"https", ":", "/", "/", "example", "/", "jwks">>

(* a key set is the sequence of its keys; a key is named by its id *)
EmptyJwks == <<>>
ProviderJwks == <<"rsa-1">>

AccessTokens == {"the_token", "other_token"}
Subjects == {"alice", "bob"}

Get(to, bearer) == [method |-> "GET", to |-> to, bearer |-> bearer]
Post(to, grant) == [method |-> "POST", to |-> to, bearer |-> grant]

(* provider metadata documents; the key set is not part of the document *)
ProviderMetadataOf(issuer, userinfo_endpoint) ==
    [issuer |-> issuer,
     authorization_endpoint |-> AuthUrlValue,
     token_endpoint |-> Some(TokenUrlValue),
     userinfo_endpoint |-> userinfo_endpoint,
     jwks_uri |-> JwksUrlValue,
     jwks |-> EmptyJwks]

(* a transport: the answer to the configuration request and to the key request *)
HttpClients ==
    { [config_status |-> s, config |-> ProviderMetadataOf(i, u), jwks_status |-> k, keys |-> ProviderJwks] :
        s \in {200, 404}, i \in {IssuerValue, OtherIssuerValue},
        u \in {None, Some(UserInfoUrlValue)}, k \in {200, 500} }

(***************************************************************************)
(* Discovery                                                               *)
(***************************************************************************)
(* the configuration document: GET issuer/.well-known/openid-configuration, *)
(* HTTP 200 required, the issuer of the document must be the one requested  *)
discover_metadata(issuer_url, http_client) ==
    LET request == Get(issuer_url \o <<"/">> \o CONFIG_URL_SUFFIX, "")
    IN  IF http_client.config_status # 200
        THEN [requests |-> <<request>>, result |-> Err("DiscoveryError", "Response")]
        ELSE IF http_client.config.issuer # issuer_url
        THEN [requests |-> <<request>>, result |-> Err("DiscoveryError", "Validation")]
        ELSE [requests |-> <<request>>, result |-> Ok(http_client.config)]

(* mutant: the metadata is returned as parsed, its key set left empty *)
discover_without_keys(issuer_url, http_client) == discover_metadata(issuer_url, http_client)

(* ProviderMetadata::discover as the crate example uses it: the metadata   *)
(* it returns carries the provider's key set, fetched from jwks_uri        *)
discover(issuer_url, http_client) ==
    LET m == discover_metadata(issuer_url, http_client)
    IN  IF ~m.result.ok
        THEN m
        ELSE LET requests == m.requests \o <<Get(m.result.value.jwks_uri, "")>>
             IN  IF http_client.jwks_status # 200
                 THEN [requests |-> requests, result |-> Err("DiscoveryError", "Response")]
                 ELSE [requests |-> requests,
                       result |-> Ok([m.result.value EXCEPT !.jwks = http_client.keys])]

(* mutant: the client starts with an empty key set *)
from_provider_metadata_no_keys(provider_metadata, client_id, client_secret) ==
    ClientNew(client_id, client_secret,
              provider_metadata.issuer,
              provider_metadata.authorization_endpoint,
              provider_metadata.token_endpoint,
              provider_metadata.userinfo_endpoint,
              EmptyJwks)

from_provider_metadata(provider_metadata, client_id, client_secret) ==
    ClientNew(client_id, client_secret,
              provider_metadata.issuer,
              provider_metadata.authorization_endpoint,
              provider_metadata.token_endpoint,
              provider_metadata.userinfo_endpoint,
              provider_metadata.jwks)

(***************************************************************************)
(* User info                                                               *)
(***************************************************************************)
UserInfoVerifierNew(client_id, issuer, jwks, expected_subject) ==
    [client_id |-> client_id, issuer |-> issuer, jwks |-> jwks,
     expected_subject |-> expected_subject]

(* mutant: a signed response is required by default *)
user_info_signed(c, access_token, expected_subject) ==
    IF c.userinfo_endpoint = None
    THEN Err("NoUserInfoEndpoint", "")
    ELSE Ok([userinfo_url |-> Unwrap(c.userinfo_endpoint),
             access_token |-> access_token,
             require_signed_response |-> TRUE,
             signed_response_verifier |->
                 UserInfoVerifierNew(c.client_id, c.issuer, c.jwks, expected_subject)])

(* mutant: the expected subject is not handed to the verifier *)
user_info_any_subject(c, access_token, expected_subject) ==
    IF c.userinfo_endpoint = None
    THEN Err("NoUserInfoEndpoint", "")
    ELSE Ok([userinfo_url |-> Unwrap(c.userinfo_endpoint),
             access_token |-> access_token,
             require_signed_response |-> FALSE,
             signed_response_verifier |->
                 UserInfoVerifierNew(c.client_id, c.issuer, c.jwks, None)])

user_info(c, access_token, expected_subject) ==
    IF c.userinfo_endpoint = None
    THEN Err("NoUserInfoEndpoint", "")
    ELSE Ok([userinfo_url |-> Unwrap(c.userinfo_endpoint),
             access_token |-> access_token,
             require_signed_response |-> FALSE,
             signed_response_verifier |->
                 UserInfoVerifierNew(c.client_id, c.issuer, c.jwks, expected_subject)])

(* user info responses: plain JSON claims, or a JWT signed by signed_by *)
UserInfoResponses ==
    { [content_type |-> "application/json", signed_by |-> "", sub |-> s] : s \in Subjects }
    \cup { [content_type |-> "application/jwt", signed_by |-> k, sub |-> s] :
             k \in {"rsa-1", "forged"}, s \in Subjects }

(* claims validation of a user info response *)
UserInfoClaims(verifier, response) ==
    IF IsSome(verifier.expected_subject) /\ response.sub # Unwrap(verifier.expected_subject)
    THEN Err("ClaimsVerification", "InvalidSubject")
    ELSE Ok([sub |-> response.sub])

(* UserInfoRequest::request, once the transport has answered *)
UserInfoRequestResponse(request, response) ==
    LET verifier == request.signed_response_verifier
    IN  IF response.content_type = "application/json"
        THEN IF request.require_signed_response
             THEN Err("ClaimsVerification", "NoSignature")
             ELSE UserInfoClaims(verifier, response)
        ELSE IF \A i \in 1..Len(verifier.jwks) : verifier.jwks[i] # response.signed_by
             THEN Err("ClaimsVerification", "SignatureVerification")
             ELSE UserInfoClaims(verifier, response)

(***************************************************************************)
(* The relying party discovers the provider, builds a client from the      *)
(* metadata and asks for user info.                                        *)
(***************************************************************************)
Discover(issuer_url, http_client) ==
    /\ Len(net) < MaxRequests
    /\ LET d == discover(issuer_url, http_client)
       IN  /\ ret' = [kind |-> "discover", issuer_url |-> issuer_url,
                      requests |-> d.requests, result |-> d.result]
           /\ net' = net \o d.requests
    /\ UNCHANGED <<client, reqs, logs, outs, held>>

(* the metadata is moved into the new client *)
FromProviderMetadata(client_id, client_secret) ==
    /\ ret.kind = "discover"
    /\ ret.result.ok
    /\ client' = from_provider_metadata(ret.result.value, client_id, client_secret)
    /\ ret' = [kind |-> "from_provider_metadata", provider_metadata |-> ret.result.value]
    /\ UNCHANGED <<reqs, logs, outs, net, held>>

UserInfo(access_token, expected_subject) ==
    /\ ret' = [kind |-> "user_info", access_token |-> access_token,
               expected_subject |-> expected_subject,
               result |-> user_info(client, access_token, expected_subject)]
    /\ UNCHANGED <<client, reqs, logs, outs, net, held>>

(* request() consumes the UserInfoRequest *)
UserInfoRequestSend(response) ==
    /\ ret.kind = "user_info"
    /\ ret.result.ok
    /\ Len(net) < MaxRequests
    /\ net' = Append(net, Get(ret.result.value.userinfo_url, ret.result.value.access_token))
    /\ ret' = [kind |-> "user_info_response", expected_subject |-> ret.expected_subject,
               response |-> response,
               result |-> UserInfoRequestResponse(ret.result.value, response)]
    /\ UNCHANGED <<client, reqs, logs, outs, held>>

NextUserInfo ==
    \/ \E http_client \in HttpClients : Discover(IssuerValue, http_client)
    \/ \E client_secret \in {None, Some(ClientSecretValue)} :
            FromProviderMetadata(ClientIdValue, client_secret)
    \/ \E access_token \in AccessTokens, expected_subject \in {None} \cup {Some(s) : s \in Subjects} :
            UserInfo(access_token, expected_subject)
    \/ \E response \in UserInfoResponses : UserInfoRequestSend(response)

SpecUserInfo == Init /\ [][NextUserInfo]_vars

(***************************************************************************)
(* Token requests                                                          *)
(***************************************************************************)
(* the response type each oauth2 client of the struct is declared with:    *)
(* oauth2::Client<TE, TR, TT> and oauth2::Client<TE, RR, TT>                *)
ClientResponseType(field) ==
    IF field = "oauth2_client" THEN "TokenResponse" ELSE "RefreshTokenResponse"

(* a request builder made by the oauth2 client held in the given field *)
TokenRequestOf(c, field, grant_type, grant) ==
    [oauth2_client |-> c[field], response |-> ClientResponseType(field),
     grant_type |-> grant_type, grant |-> grant]

exchange_code(c, code) == TokenRequestOf(c, "oauth2_client", "authorization_code", code)

(* mutant: one oauth2 client serves both kinds of request *)
exchange_refresh_token_shared(c, refresh_token) ==
    TokenRequestOf(c, "oauth2_client", "refresh_token", refresh_token)

exchange_refresh_token(c, refresh_token) ==
    TokenRequestOf(c, "refresh_oauth2_client", "refresh_token", refresh_token)

(***************************************************************************)
(* ID tokens as the provider issues them                                   *)
(***************************************************************************)
RsaKey(kid) == [kty |-> "RSA", material |-> <<kid>>]
HmacKey(secret) == [kty |-> "oct", material |-> secret]
NoKey == [kty |-> "none", material |-> <<>>]

(* the left half of the digest the algorithm names, over the access token *)
HashForAlg(alg) == IF alg \in {"RS256", "HS256", "ES256"} THEN "SHA-256" ELSE ""

AccessTokenHashFromToken(access_token, alg) ==
    IF HashForAlg(alg) = ""
    THEN Err("UnsupportedAlg", alg)
    ELSE Ok(<<"left-half", HashForAlg(alg), access_token>>)

IdTokenOf(alg, signed_by, aud, at_hash) ==
    [header |-> [alg |-> alg],
     payload |-> [iss |-> IssuerValue, aud |-> aud, sub |-> "alice",
                  nonce |-> <<"NONCE456">>, at_hash |-> at_hash],
     signed_by |-> signed_by]

TheTokenHash == Some(AccessTokenHashFromToken("the_token", "RS256").value)

ReceivedIdTokens ==
    { IdTokenOf("RS256", RsaKey("rsa-1"), ClientIdValue, TheTokenHash),
      IdTokenOf("RS256", RsaKey("rsa-1"), ClientIdValue, None),
      IdTokenOf("RS256", RsaKey("forged"), ClientIdValue, TheTokenHash),
      IdTokenOf("RS256", RsaKey("rsa-1"), <<"zzz">>, TheTokenHash),
      IdTokenOf("HS256", HmacKey(ClientSecretValue), ClientIdValue, TheTokenHash),
      IdTokenOf("ES256", RsaKey("ec-1"), ClientIdValue, TheTokenHash),
      IdTokenOf("none", NoKey, ClientIdValue, TheTokenHash) }

(* token endpoint answers: the ID token may be missing *)
TokenResponseBodies ==
    { [access_token |-> a, id_token |-> i] :
        a \in AccessTokens, i \in {None} \cup { Some(tok) : tok \in ReceivedIdTokens } }

(* IdTokenFields requires the id_token member, RefreshIdTokenFields does not *)
DeserializeTokenResponse(response, body) ==
    IF response = "TokenResponse"
    THEN IF body.id_token = None
         THEN Err("Parse", "missing field id_token")
         ELSE Ok([access_token |-> body.access_token,
                  extra_fields |-> [id_token |-> Unwrap(body.id_token)]])
    ELSE Ok([access_token |-> body.access_token,
             extra_fields |-> [id_token |-> body.id_token]])

(* TokenResponse::id_token: an IdToken *)
TokenResponse_id_token(token_response) == token_response.extra_fields.id_token

(* RefreshTokenResponse::id_token: an Option<IdToken> *)
RefreshTokenResponse_id_token(token_response) == token_response.extra_fields.id_token

(***************************************************************************)
(* ID token verification                                                   *)
(***************************************************************************)
DefaultAllowedAlgs == {"RS256"}

IdTokenVerifierNew(client_id, client_secret, issuer, jwks) ==
    [client_id |-> client_id, client_secret |-> client_secret, issuer |-> issuer,
     jwks |-> jwks, allowed_algs |-> DefaultAllowedAlgs, insecure |-> FALSE]

new_confidential_client(client_id, client_secret, issuer, jwks) ==
    IdTokenVerifierNew(client_id, Some(client_secret), issuer, jwks)

new_public_client(client_id, issuer, jwks) ==
    IdTokenVerifierNew(client_id, None, issuer, jwks)

(* mutant: every client gets the public-client verifier *)
id_token_verifier_public(c) == new_public_client(c.client_id, c.issuer, c.jwks)

(* mutant: the verifier accepts unsigned tokens without being asked to *)
id_token_verifier_insecure(c) ==
    [(IF IsSome(c.client_secret)
      THEN new_confidential_client(c.client_id, Unwrap(c.client_secret), c.issuer, c.jwks)
      ELSE new_public_client(c.client_id, c.issuer, c.jwks)) EXCEPT !.insecure = TRUE]

id_token_verifier(c) ==
    IF IsSome(c.client_secret)
    THEN new_confidential_client(c.client_id, Unwrap(c.client_secret), c.issuer, c.jwks)
    ELSE new_public_client(c.client_id, c.issuer, c.jwks)

(* what the caller may change on a verifier before using it *)
VerifierOptions ==
    { [insecure |-> i, allowed_algs |-> a] :
        i \in BOOLEAN, a \in {None, Some({"RS256", "HS256"})} }

WithOptions(verifier, opts) ==
    [verifier EXCEPT !.insecure = verifier.insecure \/ opts.insecure,
                     !.allowed_algs = IF IsSome(opts.allowed_algs)
                                      THEN Unwrap(opts.allowed_algs)
                                      ELSE verifier.allowed_algs]

SymmetricAlgs == {"HS256"}

(* the keys the verifier may check the signature with *)
VerificationKeys(verifier, alg) ==
    IF alg \in SymmetricAlgs
    THEN IF IsSome(verifier.client_secret)
         THEN { HmacKey(Unwrap(verifier.client_secret)) }
         ELSE {}
    ELSE { RsaKey(verifier.jwks[i]) : i \in 1..Len(verifier.jwks) }

(* header inspection, key selection and signature *)
VerifySignature(id_token, verifier) ==
    LET alg == id_token.header.alg
        keys == VerificationKeys(verifier, alg)
    IN  IF alg = "none"
        THEN IF verifier.insecure THEN Ok(id_token.payload) ELSE Err("DisallowedAlg", alg)
        ELSE IF alg \notin verifier.allowed_algs THEN Err("DisallowedAlg", alg)
        ELSE IF alg \in SymmetricAlgs /\ verifier.client_secret = None
        THEN Err("DisallowedAlg", "symmetric")
        ELSE IF keys = {} THEN Err("NoMatchingKey", "")
        ELSE IF id_token.signed_by \notin keys THEN Err("InvalidSignature", "")
        ELSE Ok(id_token.payload)

(* IdToken::claims(&verifier, &nonce): no access token is among its inputs *)
IdTokenClaims(id_token, verifier, nonce) ==
    LET s == VerifySignature(id_token, verifier)
    IN  IF ~s.ok THEN s
        ELSE IF s.value.iss # verifier.issuer THEN Err("InvalidIssuer", "")
        ELSE IF s.value.aud # verifier.client_id THEN Err("InvalidAudience", "")
        ELSE IF s.value.nonce # nonce THEN Err("InvalidNonce", "")
        ELSE s

(* mutant: the hashes are never compared *)
verify_access_token_hash_skipped(claims, access_token, alg) == Ok(claims)

(* the caller's comparison of the at_hash claim with the access token *)
verify_access_token_hash(claims, access_token, alg) ==
    IF IsSome(claims.at_hash)
    THEN LET actual_access_token_hash == AccessTokenHashFromToken(access_token, alg)
         IN  IF ~actual_access_token_hash.ok
             THEN actual_access_token_hash
             ELSE IF actual_access_token_hash.value # Unwrap(claims.at_hash)
             THEN Err("Invalid access token", "")
             ELSE Ok(claims)
    ELSE Ok(claims)

(* IdTokenClaims::new with the issuer, audience and subject given *)
IdTokenClaimsNew(issuer, audiences, subject) ==
    [iss |-> issuer, aud |-> audiences, sub |-> subject, nonce |-> None, at_hash |-> None]

(***************************************************************************)
(* The relying party exchanges a code or a refresh token, verifies the ID  *)
(* token of the response and compares the access token hash.               *)
(***************************************************************************)
TokenClients ==
    { ClientNew(ClientIdValue, s, IssuerValue, AuthUrlValue, Some(TokenUrlValue), None, ProviderJwks) :
        s \in {None, Some(ClientSecretValue)} }

InitToken ==
    /\ client \in TokenClients
    /\ reqs = [r \in ReqIds |-> None]
    /\ logs = [r \in ReqIds |-> [given |-> None, calls |-> <<>>, nonce_fn_calls |-> 0]]
    /\ outs = [r \in ReqIds |-> None]
    /\ ret = NoReturn
    /\ net = <<>>
    /\ held = {}

IdTokenVerifier ==
    /\ ret' = [kind |-> "id_token_verifier", verifier |-> id_token_verifier(client)]
    /\ UNCHANGED <<client, reqs, logs, outs, net, held>>

ExchangeCode(code) ==
    /\ ret' = [kind |-> "token_request", request |-> exchange_code(client, code)]
    /\ UNCHANGED <<client, reqs, logs, outs, net, held>>

ExchangeRefreshToken(refresh_token) ==
    /\ ret' = [kind |-> "token_request", request |-> exchange_refresh_token(client, refresh_token)]
    /\ UNCHANGED <<client, reqs, logs, outs, net, held>>

(* request() consumes the builder and deserialises the answer *)
TokenRequestSend(body) ==
    /\ ret.kind = "token_request"
    /\ Len(net) < MaxRequests
    /\ IsSome(ret.request.oauth2_client.token_url)
    /\ net' = Append(net, Post(Unwrap(ret.request.oauth2_client.token_url), ret.request.grant_type))
    /\ ret' = [kind |-> "token_response", request |-> ret.request, body |-> body,
               result |-> DeserializeTokenResponse(ret.request.response, body)]
    /\ UNCHANGED <<client, reqs, logs, outs, held>>

(* the ID token of the response in ret, if it has one *)
ResponseIdToken ==
    IF ret.request.response = "TokenResponse"
    THEN Some(TokenResponse_id_token(ret.result.value))
    ELSE RefreshTokenResponse_id_token(ret.result.value)

(* mutant: the payload is kept whatever the verifier says *)
Claims_unverified(nonce, opts) ==
    /\ ret.kind = "token_response"
    /\ ret.result.ok
    /\ IsSome(ResponseIdToken)
    /\ LET id_token == Unwrap(ResponseIdToken)
           verifier == WithOptions(id_token_verifier(client), opts)
       IN  /\ ret' = [kind |-> "claims", access_token |-> ret.result.value.access_token,
                      id_token |-> id_token, nonce |-> nonce, opts |-> opts,
                      verifier |-> verifier,
                      result |-> IdTokenClaims(id_token, verifier, nonce)]
           /\ held' = held \cup {[claims |-> id_token.payload, origin |-> "claims"]}
    /\ UNCHANGED <<client, reqs, logs, outs, net>>

(* token_response.id_token().claims(&client.id_token_verifier(), &nonce) *)
Claims(nonce, opts) ==
    /\ ret.kind = "token_response"
    /\ ret.result.ok
    /\ IsSome(ResponseIdToken)
    /\ LET id_token == Unwrap(ResponseIdToken)
           verifier == WithOptions(id_token_verifier(client), opts)
           result == IdTokenClaims(id_token, verifier, nonce)
       IN  /\ ret' = [kind |-> "claims", access_token |-> ret.result.value.access_token,
                      id_token |-> id_token, nonce |-> nonce, opts |-> opts,
                      verifier |-> verifier, result |-> result]
           /\ held' = IF result.ok
                      THEN held \cup {[claims |-> result.value, origin |-> "claims"]}
                      ELSE held
    /\ UNCHANGED <<client, reqs, logs, outs, net>>

VerifyAccessTokenHash ==
    /\ ret.kind = "claims"
    /\ ret.result.ok
    /\ ret' = [kind |-> "access_token_hash", access_token |-> ret.access_token,
               id_token |-> ret.id_token,
               result |-> verify_access_token_hash(ret.result.value, ret.access_token,
                                                   ret.id_token.header.alg)]
    /\ UNCHANGED <<client, reqs, logs, outs, net, held>>

NewIdTokenClaims(subject) ==
    /\ LET claims == IdTokenClaimsNew(IssuerValue, ClientIdValue, subject)
       IN  /\ ret' = [kind |-> "claims_new", claims |-> claims]
           /\ held' = held \cup {[claims |-> claims, origin |-> "new"]}
    /\ UNCHANGED <<client, reqs, logs, outs, net>>

NextToken ==
    \/ IdTokenVerifier
    \/ ExchangeCode("code")
    \/ ExchangeRefreshToken("refresh")
    \/ \E body \in TokenResponseBodies : TokenRequestSend(body)
    \/ \E nonce \in Nonces, opts \in VerifierOptions : Claims(nonce, opts)
    \/ VerifyAccessTokenHash
    \/ \E subject \in Subjects : NewIdTokenClaims(subject)

SpecToken == InitToken /\ [][NextToken]_vars

(***************************************************************************)
(* A program that reconfigures clones of its client while two              *)
(* authorization requests are being built and the client's other           *)
(* operations are called.                                                  *)
(***************************************************************************)
CloneSetAuthType(auth_type) ==
    /\ client' = set_auth_type(client, auth_type)
    /\ UNCHANGED <<reqs, logs, outs, others>>

FrameStep(r) ==
    \/ \E state \in CsrfTokens, nonce \in Nonces :
            AuthorizeUrl(r, AuthorizationCode, state, nonce)
    \/ AddScope(r, <<"email">>)
    \/ Url(r)

NextFrame ==
    \/ \E u \in RedirectUrls : CloneSetRedirectUri(u)
    \/ \E auth_type \in AuthTypes : CloneSetAuthType(auth_type)
    \/ \E r \in ReqIds : FrameStep(r)
    \/ IdTokenVerifier
    \/ UserInfo("the_token", None)
    \/ ExchangeCode("code")
    \/ ExchangeRefreshToken("refresh")

SpecFrame == Init /\ [][NextFrame]_vars

(***************************************************************************)
(* Two requests started with the same arguments from the same client, to   *)
(* which the program applies builder calls in any order.                   *)
(***************************************************************************)
CommuteStep(r) ==
    \/ AuthorizeUrl(r, AuthorizationCode, <<"CSRF123">>, <<"NONCE456">>)
    \/ AddScope(r, <<"email">>)
    \/ AddExtraParam(r, <<"foo">>, <<"bar">>)
    \/ \E prompt \in Prompts : AddPrompt(r, prompt)
    \/ \E display \in Displays : SetDisplay(r, display)
    \/ \E max_age \in Durations : SetMaxAge(r, max_age)
    \/ Url(r)

NextCommute == \E r \in ReqIds : CommuteStep(r)

SpecCommute == Init /\ [][NextCommute]_vars

(***************************************************************************)
(* A client built from discovered metadata hands out verifiers.            *)
(***************************************************************************)
NextMetadata ==
    \/ \E issuer_url \in {IssuerValue, OtherIssuerValue}, http_client \in HttpClients :
            Discover(issuer_url, http_client)
    \/ \E client_secret \in {None, Some(ClientSecretValue)} :
            FromProviderMetadata(ClientIdValue, client_secret)
    \/ IdTokenVerifier
    \/ \E access_token \in AccessTokens, expected_subject \in {None} \cup {Some(s) : s \in Subjects} :
            UserInfo(access_token, expected_subject)

SpecMetadata == Init /\ [][NextMetadata]_vars

(* Url's Display form: base?name=value&name=value... *)
RECURSIVE QueryToString(_, _)
QueryToString(q, n) ==
    IF n = 0 THEN <<>>
    ELSE (IF n = 1 THEN <<>> ELSE QueryToString(q, n - 1) \o <<"&">>)
         \o q[n].name \o <<"=">> \o q[n].value

UrlToString(u) ==
    u.base \o (IF Len(u.query) = 0 THEN <<>> ELSE <<"?">> \o QueryToString(u.query, Len(u.query)))

(***************************************************************************)
(* Vocabulary of the properties.                                           *)
(***************************************************************************)
R == "r1"

Done(r) == IsSome(outs[r])
Out(r) == Unwrap(outs[r])
Query(r) == Out(r).url.query
Given(r) == Unwrap(logs[r].given)
Calls(r) == logs[r].calls

(* the positions of the query parameters called name *)
Positions(q, name) == { i \in 1..Len(q) : q[i].name = name }

Pos(q, name) == CHOOSE i \in Positions(q, name) : TRUE

Has(q, name) == Positions(q, name) # {}

Once(q, name) == Cardinality(Positions(q, name)) = 1

(* what a server reading the query string decodes a value to *)
DecodeAtom(a) ==
    CASE a = "+" -> " "
      [] a = "%3A" -> ":"
      [] a = "%2F" -> "/"
      [] a = "%40" -> "@"
      [] a = "%2B" -> "+"
      [] OTHER -> a

Decoded(v) == [i \in 1..Len(v) |-> DecodeAtom(v[i])]

ValueOf(q, name) == Decoded(q[Pos(q, name)].value)

(* the entries, each followed by one space except the last *)
RECURSIVE SpaceSeparated(_, _)
SpaceSeparated(items, n) ==
    IF n = 0 THEN <<>>
    ELSE IF n = 1 THEN items[1]
    ELSE SpaceSeparated(items, n - 1) \o <<" ">> \o items[n]

(* the first arguments of the calls named op, in call order *)
CallsOf(r, op) == SelectSeq(Calls(r), LAMBDA c : c.op = op)

ArgsOf(r, op) == [i \in 1..Len(CallsOf(r, op)) |-> CallsOf(r, op)[i].a]

(***************************************************************************)
(* C1: whatever builder calls were made, the URL returned by url() carries *)
(* exactly one response_type, whose value is "code" for AuthorizationCode, *)
(* "id_token" for Implicit(false) and "id_token token" for Implicit(true). *)
(***************************************************************************)
C1_ResponseTypeOfFlow ==
    Done(R) =>
        LET flow == Given(R).flow
        IN  /\ Once(Query(R), <<"response_type">>)
            /\ flow.kind = "AuthorizationCode" =>
                    ValueOf(Query(R), <<"response_type">>) = <<"code">>
            /\ (flow.kind = "Implicit" /\ ~flow.include_token) =>
                    ValueOf(Query(R), <<"response_type">>) = <<"id_token">>
            /\ (flow.kind = "Implicit" /\ flow.include_token) =>
                    ValueOf(Query(R), <<"response_type">>) = <<"id_token", " ", "token">>

C1_Witness ==
    /\ Done(R)
    /\ Given(R).flow = Implicit(TRUE)
    /\ Len(Calls(R)) >= 2
    /\ Query(R)[1].value = <<"id_token", "+", "token">>

(***************************************************************************)
(* C2: for Hybrid(rts) the response_type value is the variant names of rts *)
(* in the caller's order, none dropped, separated by single spaces.        *)
(***************************************************************************)
C2_HybridResponseType ==
    (Done(R) /\ Given(R).flow.kind = "Hybrid") =>
        LET rts == Given(R).flow.response_types
            v == ValueOf(Query(R), <<"response_type">>)
            n == Len(rts)
        IN  /\ Once(Query(R), <<"response_type">>)
            /\ Len(v) = (IF n = 0 THEN 0 ELSE 2 * n - 1)
            /\ \A i \in 1..n : <<v[2 * i - 1]>> = VariantName(rts[i])
            /\ \A i \in 1..(n - 1) : v[2 * i] = " "

C2_Witness ==
    /\ Done(R)
    /\ Given(R).flow = Hybrid(<<"Code", "IdToken">>)
    /\ Query(R)[1] = [name |-> <<"response_type">>, value |-> <<"code", "+", "id_token">>]

(***************************************************************************)
(* C3: every URL has exactly one scope parameter; its value is "openid"    *)
(* followed by the scopes given to add_scope in call order, separated by   *)
(* single spaces.                                                          *)
(***************************************************************************)
C3_ScopeOpenidFirst ==
    Done(R) =>
        LET added == ArgsOf(R, "add_scope")
            all == <<OPENID_SCOPE>> \o added
        IN  /\ Once(Query(R), <<"scope">>)
            /\ ValueOf(Query(R), <<"scope">>) = SpaceSeparated(all, Len(all))

C3_Witness ==
    /\ Done(R)
    /\ ArgsOf(R, "add_scope") = << <<"profile">>, <<"email">> >>
    /\ Query(R)[Pos(Query(R), <<"scope">>)].value = <<"openid", "+", "profile", "+", "email">>

(***************************************************************************)
(* Parameter order.  An order is a list of parameter names in which the    *)
(* entry EXTRAS stands for the caller's extra parameters.                  *)
(***************************************************************************)
EXTRAS == <<"*">>

OidcNames ==
    << <<"nonce">>, <<"acr_values">>, <<"claims_locales">>, <<"display">>,
       <<"id_token_hint">>, <<"login_hint">>, <<"max_age">>, <<"prompt">>,
       <<"ui_locales">> >>

ClaimedOrder ==
    << <<"response_type">>, <<"client_id">>, <<"state">>, <<"redirect_uri">>,
       <<"scope">> >> \o OidcNames
    \o << <<"code_challenge">>, <<"code_challenge_method">>, EXTRAS >>

EmittedOrder ==
    << <<"response_type">>, <<"client_id">>, <<"state">>, <<"code_challenge">>,
       <<"code_challenge_method">>, <<"redirect_uri">>, <<"scope">>, EXTRAS >>
    \o OidcNames

IsManaged(order, name) == \E i \in 1..Len(order) : order[i] = name /\ name # EXTRAS

RankIn(order, name) ==
    IF IsManaged(order, name)
    THEN CHOOSE i \in 1..Len(order) : order[i] = name
    ELSE CHOOSE i \in 1..Len(order) : order[i] = EXTRAS

DecodedPair(p) == [name |-> Decoded(p.name), value |-> Decoded(p.value)]

DecodedQuery(r) == [i \in 1..Len(Query(r)) |-> DecodedPair(Query(r)[i])]

(* the caller's extra parameters, as (name, value) pairs in call order *)
ExtrasGiven(r) ==
    [i \in 1..Len(CallsOf(r, "add_extra_param")) |->
        [name |-> CallsOf(r, "add_extra_param")[i].a,
         value |-> CallsOf(r, "add_extra_param")[i].b]]

FollowsOrder(r, order) ==
    LET q == DecodedQuery(r)
    IN  /\ \A i, j \in 1..Len(q) :
              i < j =>
                 /\ RankIn(order, q[i].name) <= RankIn(order, q[j].name)
                 /\ RankIn(order, q[i].name) = RankIn(order, q[j].name)
                      => ~IsManaged(order, q[i].name)
        /\ SelectSeq(q, LAMBDA p : ~IsManaged(order, p.name)) = ExtrasGiven(r)

(***************************************************************************)
(* C4 as stated: the parameters present are emitted in the order           *)
(* response_type, client_id, state, redirect_uri, scope, nonce,            *)
(* acr_values, claims_locales, display, id_token_hint, login_hint,         *)
(* max_age, prompt, ui_locales, code_challenge, code_challenge_method,     *)
(* then the caller's extra parameters in insertion order.                  *)
(***************************************************************************)
C4_ClaimedOrder == Done(R) => FollowsOrder(R, ClaimedOrder)

(***************************************************************************)
(* C4 amended: the parameters present are emitted in the order             *)
(* response_type, client_id, state, code_challenge, code_challenge_method, *)
(* redirect_uri, scope, the caller's extra parameters in insertion order,  *)
(* nonce, acr_values, claims_locales, display, id_token_hint, login_hint,  *)
(* max_age, prompt, ui_locales.                                            *)
(***************************************************************************)
C4_EmittedOrder == Done(R) => FollowsOrder(R, EmittedOrder)

C4_Witness ==
    /\ Done(R)
    /\ Has(Query(R), <<"code_challenge_method">>)
    /\ Has(Query(R), <<"foo">>)
    /\ Has(Query(R), <<"redirect_uri">>)
    /\ Pos(Query(R), <<"foo">>) < Pos(Query(R), <<"nonce">>)

(***************************************************************************)
(* C5: the caller's extra parameters come directly after scope, in call    *)
(* order, and before nonce and every optional OIDC parameter, wherever in  *)
(* the call chain add_extra_param was invoked.                             *)
(***************************************************************************)
C5_ExtrasRightAfterScope ==
    (Done(R) /\ Len(ExtrasGiven(R)) > 0) =>
        LET q == DecodedQuery(R)
            p == Pos(q, <<"scope">>)
            n == Len(ExtrasGiven(R))
        IN  /\ Once(q, <<"scope">>)
            /\ p + n <= Len(q)
            /\ \A k \in 1..n : q[p + k] = ExtrasGiven(R)[k]
            /\ \A i \in 1..Len(OidcNames) :
                  \A j \in Positions(q, OidcNames[i]) : j > p + n

C5_Witness ==
    /\ Done(R)
    /\ Len(Calls(R)) = 2
    /\ Calls(R)[1].op = "set_display"
    /\ Calls(R)[2].op = "add_extra_param"
    /\ Calls(R)[2].a = <<"foo">>
    /\ Pos(Query(R), <<"foo">>) = Pos(Query(R), <<"scope">>) + 1
    /\ Pos(Query(R), <<"display">>) > Pos(Query(R), <<"nonce">>)

(***************************************************************************)
(* C6: acr_values, claims_locales, prompt and ui_locales each appear at    *)
(* most once, and when values were added the one parameter carries all of  *)
(* them in the order added, separated by single spaces.                    *)
(***************************************************************************)
MultiValued ==
    { [name |-> <<"acr_values">>, op |-> "add_auth_context_value"],
      [name |-> <<"claims_locales">>, op |-> "add_claims_locale"],
      [name |-> <<"prompt">>, op |-> "add_prompt"],
      [name |-> <<"ui_locales">>, op |-> "add_ui_locale"] }

C6_MultiValuedJoined ==
    Done(R) =>
        \A m \in MultiValued :
            LET added == ArgsOf(R, m.op)
            IN  /\ Cardinality(Positions(Query(R), m.name)) <= 1
                /\ Len(added) > 0 =>
                      /\ Has(Query(R), m.name)
                      /\ ValueOf(Query(R), m.name) = SpaceSeparated(added, Len(added))

C6_Witness ==
    /\ Done(R)
    /\ ArgsOf(R, "add_prompt") = << <<"login">>, <<"consent">> >>
    /\ Query(R)[Pos(Query(R), <<"prompt">>)].value = <<"login", "+", "consent">>

(***************************************************************************)
(* C7: an optional parameter is in the URL exactly when it was set         *)
(* (display, id_token_hint, login_hint, max_age, redirect_uri) or had a    *)
(* value added (acr_values, claims_locales, prompt, ui_locales); with      *)
(* nothing optional set the parameters are exactly response_type,          *)
(* client_id, state, scope, nonce.                                         *)
(***************************************************************************)
SingleValued ==
    { [name |-> <<"display">>, op |-> "set_display"],
      [name |-> <<"id_token_hint">>, op |-> "set_id_token_hint"],
      [name |-> <<"login_hint">>, op |-> "set_login_hint"],
      [name |-> <<"max_age">>, op |-> "set_max_age"] }

QueryNames(r) == [i \in 1..Len(Query(r)) |-> Query(r)[i].name]

C7_OptionalIffSet ==
    Done(R) =>
        /\ \A m \in SingleValued \cup MultiValued :
              Has(Query(R), m.name) <=> Len(CallsOf(R, m.op)) > 0
        /\ Has(Query(R), <<"redirect_uri">>)
              <=> IsSome(Given(R).client.oauth2_client.redirect_url)
        /\ (Len(Calls(R)) = 0 /\ Given(R).client.oauth2_client.redirect_url = None) =>
              QueryNames(R) = << <<"response_type">>, <<"client_id">>, <<"state">>,
                                 <<"scope">>, <<"nonce">> >>

C7_Witness ==
    /\ Done(R)
    /\ Len(Calls(R)) = 0
    /\ Given(R).client.oauth2_client.redirect_url = None
    /\ Given(R).flow = AuthorizationCode
    /\ Query(R) = << Pair(<<"response_type">>, <<"code">>), Pair(<<"client_id">>, <<"aaa">>),
                     Pair(<<"state">>, <<"CSRF123">>), Pair(<<"scope">>, <<"openid">>),
                     Pair(<<"nonce">>, <<"NONCE456">>) >>

(***************************************************************************)
(* C8: max_age is the decimal number of whole seconds of the duration      *)
(* last given to set_max_age; the sub-second part is dropped.              *)
(***************************************************************************)
DigitValue(a) == CHOOSE d \in 0..9 : Digit(d) = a

IsDigit(a) == \E d \in 0..9 : Digit(d) = a

RECURSIVE ParseDecimal(_, _)
ParseDecimal(v, n) ==
    IF n = 0 THEN 0 ELSE 10 * ParseDecimal(v, n - 1) + DigitValue(v[n])

IsDecimal(v) ==
    /\ Len(v) >= 1
    /\ \A i \in 1..Len(v) : IsDigit(v[i])
    /\ Len(v) > 1 => v[1] # "0"

C8_MaxAgeWholeSeconds ==
    (Done(R) /\ Len(CallsOf(R, "set_max_age")) > 0) =>
        LET sets == CallsOf(R, "set_max_age")
            d == sets[Len(sets)].d
            v == ValueOf(Query(R), <<"max_age">>)
        IN  /\ Once(Query(R), <<"max_age">>)
            /\ IsDecimal(v)
            /\ ParseDecimal(v, Len(v)) = d.secs
            /\ (d.secs = 0 /\ d.nanos > 0) => v = <<"0">>

C8_Witness ==
    /\ Done(R)
    /\ Len(CallsOf(R, "set_max_age")) = 2
    /\ CallsOf(R, "set_max_age")[2].d = [secs |-> 0, nanos |-> 500000000]
    /\ Query(R)[Pos(Query(R), <<"max_age">>)].value = <<"0">>

(***************************************************************************)
(* C9: url() returns the CSRF state produced by state_fn and the nonce     *)
(* produced by nonce_fn, and the URL's state and nonce parameters carry    *)
(* exactly those two values.                                               *)
(***************************************************************************)
C9_StateAndNonceReturned ==
    Done(R) =>
        /\ Out(R).csrf_state = Given(R).state
        /\ Out(R).nonce = Given(R).nonce
        /\ Once(Query(R), <<"state">>)
        /\ Once(Query(R), <<"nonce">>)
        /\ ValueOf(Query(R), <<"state">>) = Out(R).csrf_state
        /\ ValueOf(Query(R), <<"nonce">>) = Out(R).nonce

C9_Witness ==
    /\ Done(R)
    /\ Len(Calls(R)) >= 1
    /\ Out(R).csrf_state = <<"CSRF123">>
    /\ Out(R).nonce = <<"NONCE9">>
    /\ Query(R)[3] = Pair(<<"state">>, <<"CSRF123">>)

CountNamed(q, name) == Cardinality(Positions(q, name))

ManagedPairs(r) ==
    << Pair(<<"response_type">>,
            IF Given(r).flow.kind = "AuthorizationCode"
            THEN <<"code">> ELSE <<"id_token", " ", "token">>),
       Pair(<<"client_id">>, Given(r).client.client_id),
       Pair(<<"state">>, Given(r).state),
       Pair(<<"scope">>, SpaceSeparated(<<OPENID_SCOPE>> \o ArgsOf(r, "add_scope"),
                                        1 + Len(ArgsOf(r, "add_scope")))),
       Pair(<<"nonce">>, Given(r).nonce) >>
    \o (IF Len(CallsOf(r, "set_display")) > 0
        THEN << Pair(<<"display">>,
                     CallsOf(r, "set_display")[Len(CallsOf(r, "set_display"))].a) >>
        ELSE <<>>)

C11_ManagedNotOverwritten ==
    Done(R) =>
        LET q == DecodedQuery(R)
            m == ManagedPairs(R)
            x == ExtrasGiven(R)
            first_scope == CHOOSE i \in Positions(q, <<"scope">>) :
                              \A j \in Positions(q, <<"scope">>) : i <= j
        IN  /\ \A k \in 1..Len(m) :
                  /\ \E i \in 1..Len(q) : q[i] = m[k]
                  /\ CountNamed(q, m[k].name) =
                        1 + Cardinality({ i \in 1..Len(x) : x[i].name = m[k].name })
            /\ Has(q, <<"scope">>)
            /\ first_scope + Len(x) <= Len(q)
            /\ \A k \in 1..Len(x) : q[first_scope + k] = x[k]

C11_Witness ==
    /\ Done(R)
    /\ Len(Calls(R)) = 2
    /\ Calls(R)[1].op = "add_extra_param" /\ Calls(R)[1].a = <<"nonce">>
    /\ Calls(R)[2].op = "add_extra_param" /\ Calls(R)[2].a = <<"state">>
    /\ Given(R).nonce = <<"NONCE456">>
    /\ CountNamed(Query(R), <<"nonce">>) = 2
    /\ Query(R)[Len(Query(R))] = Pair(<<"nonce">>, <<"NONCE456">>)

C13_UserInfoRequest ==
    /\ ret.kind = "user_info" =>
         /\ ret.result.ok <=> IsSome(client.userinfo_endpoint)
         /\ ~ret.result.ok => ret.result.error = "NoUserInfoEndpoint"
         /\ ret.result.ok =>
              /\ ret.result.value.userinfo_url = Unwrap(client.userinfo_endpoint)
              /\ ret.result.value.access_token = ret.access_token
              /\ ret.result.value.require_signed_response = FALSE
    /\ ret.kind = "user_info_response" =>
         /\ net[Len(net)] = Get(Unwrap(client.userinfo_endpoint), net[Len(net)].bearer)
         /\ net[Len(net)].bearer \in AccessTokens
         /\ ret.response.content_type = "application/json" => ret.result.detail # "NoSignature"

C13_Witness ==
    /\ ret.kind = "user_info"
    /\ ret.result.ok
    /\ ret.result.value.userinfo_url = UserInfoUrlValue
    /\ ret.result.value.access_token = "the_token"

(***************************************************************************)
(* C14: with an expected subject, a user info response for another subject *)
(* fails with ClaimsVerification and yields no claims; with None every     *)
(* subject is accepted.                                                    *)
(***************************************************************************)
C14_SubstitutionDefense ==
    ret.kind = "user_info_response" =>
        /\ (IsSome(ret.expected_subject) /\ ret.response.sub # Unwrap(ret.expected_subject)) =>
              /\ ~ret.result.ok
              /\ ret.result.error = "ClaimsVerification"
              /\ ret.result.value = None
        /\ ret.expected_subject = None =>
              /\ ret.result.detail # "InvalidSubject"
              /\ ret.response.content_type = "application/json" =>
                    (ret.result.ok /\ ret.result.value.sub = ret.response.sub)

C14_Witness ==
    /\ ret.kind = "user_info_response"
    /\ ret.expected_subject = Some("bob")
    /\ ret.response.sub = "alice"
    /\ ret.response.content_type = "application/json"
    /\ ret.result.error = "ClaimsVerification"
    /\ ret.result.detail = "InvalidSubject"

(***************************************************************************)
(* C20 as stated: discover returns the metadata without having asked for   *)
(* the key set, and the metadata carries no keys.                          *)
(***************************************************************************)
C20_DiscoverLeavesJwksUnfetched ==
    (ret.kind = "discover" /\ ret.result.ok) =>
        /\ \A i \in 1..Len(net) : net[i].to # JwksUrlValue
        /\ ret.result.value.jwks = EmptyJwks

(***************************************************************************)
(* C20: discover asks for the configuration document and, once it is       *)
(* accepted, for the key set at its jwks_uri; the metadata it returns      *)
(* carries the fetched keys and from_provider_metadata gives them to the   *)
(* client without any further request.                                     *)
(***************************************************************************)
C20_DiscoverFetchesJwks ==
    /\ ret.kind = "discover" =>
         LET n == Len(ret.requests)
         IN  /\ n <= Len(net)
             /\ SubSeq(net, Len(net) - n + 1, Len(net)) = ret.requests
             /\ ret.requests[1] = Get(ret.issuer_url \o <<"/">> \o CONFIG_URL_SUFFIX, "")
             /\ ret.result.ok =>
                  /\ n = 2
                  /\ ret.requests[2] = Get(ret.result.value.jwks_uri, "")
                  /\ ret.result.value.jwks = ProviderJwks
                  /\ ret.result.value.issuer = ret.issuer_url
    /\ ret.kind = "from_provider_metadata" =>
         /\ client.jwks = ret.provider_metadata.jwks
         /\ client.jwks = ProviderJwks
         /\ client.userinfo_endpoint = ret.provider_metadata.userinfo_endpoint
         /\ net[Len(net)] = Get(JwksUrlValue, "")

C20_Witness ==
    /\ ret.kind = "from_provider_metadata"
    /\ client.jwks = ProviderJwks
    /\ net = <<Get(IssuerValue \o <<"/">> \o CONFIG_URL_SUFFIX, ""), Get(JwksUrlValue, "")>>

(***************************************************************************)
(* C15: exchange_code builds its request with the oauth2 client whose      *)
(* response type requires the ID token, so a code-exchange response always *)
(* has one; exchange_refresh_token uses the client whose response type     *)
(* makes it optional, so a refresh response without ID token is accepted.  *)
(***************************************************************************)
C15_IdTokenRequiredOrOptional ==
    /\ ret.kind = "token_request" =>
         IF ret.request.grant_type = "authorization_code"
         THEN /\ ret.request.oauth2_client = client.oauth2_client
              /\ ret.request.response = "TokenResponse"
         ELSE /\ ret.request.oauth2_client = client.refresh_oauth2_client
              /\ ret.request.response = "RefreshTokenResponse"
    /\ ret.kind = "token_response" =>
         IF ret.request.grant_type = "authorization_code"
         THEN /\ ret.result.ok <=> IsSome(ret.body.id_token)
              /\ ret.result.ok =>
                    TokenResponse_id_token(ret.result.value) = Unwrap(ret.body.id_token)
         ELSE /\ ret.result.ok
              /\ RefreshTokenResponse_id_token(ret.result.value) = ret.body.id_token

C15_Witness ==
    /\ ret.kind = "token_response"
    /\ ret.request.grant_type = "refresh_token"
    /\ ret.body.id_token = None
    /\ ret.result.ok

(***************************************************************************)
(* C16: the verifier of a client is keyed with the client secret exactly   *)
(* when the client has one; the verifier of a client without secret        *)
(* rejects every HS256 token, the verifier of a client with a secret       *)
(* accepts the one signed with that secret once HS256 is allowed.          *)
(***************************************************************************)
C16_VerifierFollowsClientSecret ==
    /\ ret.kind = "id_token_verifier" =>
         /\ ret.verifier.client_secret = client.client_secret
         /\ ret.verifier.client_id = client.client_id
         /\ ret.verifier.issuer = client.issuer
         /\ ret.verifier.jwks = client.jwks
    /\ (ret.kind = "claims" /\ ret.id_token.header.alg \in SymmetricAlgs) =>
         /\ client.client_secret = None => ~ret.result.ok
         /\ ( /\ IsSome(client.client_secret)
              /\ ret.id_token.header.alg \in ret.verifier.allowed_algs
              /\ ret.id_token.signed_by = HmacKey(Unwrap(client.client_secret))
              /\ ret.nonce = ret.id_token.payload.nonce ) => ret.result.ok

C16_Witness ==
    /\ ret.kind = "claims"
    /\ ret.id_token.header.alg = "HS256"
    /\ client.client_secret = None
    /\ ret.opts.allowed_algs = Some({"RS256", "HS256"})
    /\ ~ret.result.ok

AtHashMismatch(id_token, access_token) ==
    /\ IsSome(id_token.payload.at_hash)
    /\ LET h == AccessTokenHashFromToken(access_token, id_token.header.alg)
       IN  h.ok /\ h.value # Unwrap(id_token.payload.at_hash)

C19_ClaimsOnlyFromVerifier == \A c \in held : c.origin = "claims"

(***************************************************************************)
(* C19: the claims of a received ID token are obtained only from claims()  *)
(* having accepted the token; the other claims values the program holds    *)
(* were built directly with IdTokenClaims::new.                            *)
(***************************************************************************)
C19_ClaimsVerifiedOrConstructed ==
    [][ held' # held =>
          \/ /\ ret'.kind = "claims"
             /\ ret'.result.ok
             /\ VerifySignature(ret'.id_token, ret'.verifier).ok
             /\ ret'.result.value = ret'.id_token.payload
             /\ held' = held \cup {[claims |-> ret'.id_token.payload, origin |-> "claims"]}
          \/ /\ ret'.kind = "claims_new"
             /\ held' = held \cup {[claims |-> ret'.claims, origin |-> "new"]} ]_vars

C19_Witness ==
    /\ ret.kind = "claims"
    /\ ret.result.ok
    /\ [claims |-> ret.id_token.payload, origin |-> "claims"] \in held
    /\ \E c \in held : c.origin = "new"

(***************************************************************************)
(* C21: whatever set_auth_type and set_redirect_uri calls were made, the   *)
(* oauth2 client used for authorization URLs and code exchange and the one *)
(* used for refresh hold the same client id, secret, auth URL, token URL,  *)
(* auth type and redirect URL.                                             *)
(***************************************************************************)
C21_InnerClientsAgree ==
    LET a == client.oauth2_client
        b == client.refresh_oauth2_client
    IN  /\ a.client_id = b.client_id
        /\ a.client_secret = b.client_secret
        /\ a.auth_url = b.auth_url
        /\ a.token_url = b.token_url
        /\ a.auth_type = b.auth_type
        /\ a.redirect_url = b.redirect_url

C21_Witness ==
    /\ client.oauth2_client.auth_type = "RequestBody"
    /\ client.refresh_oauth2_client.auth_type = "RequestBody"
    /\ client.oauth2_client.redirect_url = Some(<<"http", ":", "/", "/", "localhost", ":", "8888", "/">>)
    /\ IsSome(client.refresh_oauth2_client.redirect_url)

(* the builder call a log entry records, applied to req *)
ApplyCall(req, call) ==
    CASE call.op = "add_scope" -> add_scope(req, call.a)
      [] call.op = "add_extra_param" -> add_extra_param(req, call.a, call.b)
      [] call.op = "set_pkce_challenge" ->
            set_pkce_challenge(req, [challenge |-> call.a, method |-> call.b])
      [] call.op = "add_auth_context_value" -> add_auth_context_value(req, call.a)
      [] call.op = "add_claims_locale" -> add_claims_locale(req, call.a)
      [] call.op = "set_display" -> set_display(req, call.a)
      [] call.op = "set_id_token_hint" -> set_id_token_hint(req, ParseIdToken(call.a))
      [] call.op = "set_login_hint" -> set_login_hint(req, call.a)
      [] call.op = "set_max_age" -> set_max_age(req, call.d)
      [] call.op = "add_prompt" -> add_prompt(req, call.a)
      [] call.op = "add_ui_locale" -> add_ui_locale(req, call.a)

RECURSIVE Replay(_, _)
Replay(req, calls) ==
    IF calls = <<>> THEN req ELSE Replay(ApplyCall(req, Head(calls)), Tail(calls))

(* the request r is, from the client as it was at authorize_url time and r's own calls *)
Rebuilt(r) ==
    Replay(authorize_url(Given(r).client, Given(r).flow, Given(r).state, Given(r).nonce),
           Calls(r))

(***************************************************************************)
(* C22: a step that returns a verifier, a user info request or a token     *)
(* request, or that acts on an authorization request, leaves the client    *)
(* and every other request as they were; a request, and the triple url()   *)
(* returns for it, are those obtained from the client as it was at         *)
(* authorize_url time and the request's own builder calls.                 *)
(***************************************************************************)
C22_FrameOfClientAndRequests ==
    /\ [](\A r \in ReqIds :
            /\ IsSome(reqs[r]) => Unwrap(reqs[r]) = Rebuilt(r)
            /\ Done(r) => Out(r) = url(Rebuilt(r)))
    /\ [][ /\ ret' # ret => (client' = client /\ reqs' = reqs /\ outs' = outs /\ logs' = logs)
           /\ \A r \in ReqIds :
                (reqs'[r] # reqs[r] \/ outs'[r] # outs[r] \/ logs'[r] # logs[r]) =>
                    /\ client' = client
                    /\ ret' = ret
                    /\ \A q \in ReqIds \ {r} :
                          reqs'[q] = reqs[q] /\ outs'[q] = outs[q] /\ logs'[q] = logs[q] ]_vars

C22_Witness ==
    /\ Done("r1")
    /\ IsSome(reqs["r2"])
    /\ Len(Calls("r1")) = 1
    /\ Len(Calls("r2")) = 2
    /\ Given("r1").client # client
    /\ Given("r1").client # Given("r2").client
    /\ ret.kind = "id_token_verifier"
    /\ Out("r1") = url(Rebuilt("r1"))

MultiValuedOps ==
    { "add_scope", "add_auth_context_value", "add_claims_locale", "add_prompt",
      "add_ui_locale", "add_extra_param" }

SingleValuedOps ==
    { "set_display", "set_id_token_hint", "set_login_hint", "set_max_age",
      "set_pkce_challenge" }

(* the last call of op on r, if any: the value a single-valued option ends with *)
LastOf(r, op) ==
    IF Len(CallsOf(r, op)) = 0 THEN None ELSE Some(CallsOf(r, op)[Len(CallsOf(r, op))])

(* r and q were given the same values per parameter, in the same order per parameter *)
SamePerParameter(r, q) ==
    /\ logs[r].given = logs[q].given
    /\ \A op \in MultiValuedOps : CallsOf(r, op) = CallsOf(q, op)
    /\ \A op \in SingleValuedOps : LastOf(r, op) = LastOf(q, op)

(***************************************************************************)
(* C23: two requests that end with the same single-valued options and were *)
(* given the same values in the same order for each multi-valued parameter *)
(* yield the same URL, state and nonce, however the calls for different    *)
(* parameters were interleaved.                                            *)
(***************************************************************************)
C23_BuilderCallsCommute ==
    (Done("r1") /\ Done("r2") /\ SamePerParameter("r1", "r2")) =>
        /\ UrlToString(Out("r1").url) = UrlToString(Out("r2").url)
        /\ Out("r1") = Out("r2")

C23_Witness ==
    /\ Done("r1")
    /\ Done("r2")
    /\ SamePerParameter("r1", "r2")
    /\ Calls("r1") # Calls("r2")
    /\ Len(CallsOf("r1", "add_extra_param")) = 1
    /\ Len(CallsOf("r1", "add_prompt")) = 1
    /\ Has(Query("r1"), <<"prompt">>)
    /\ Has(Query("r1"), <<"foo">>)

(***************************************************************************)
(* C24: the client from_provider_metadata returns has the issuer, the      *)
(* authorization, token and userinfo endpoints and the key set of the      *)
(* metadata; the verifier id_token_verifier returns and the one user_info  *)
(* embeds carry the client's client id, issuer and key set.                *)
(***************************************************************************)
C24_ClientAndVerifiersFromMetadata ==
    /\ ret.kind = "from_provider_metadata" =>
         LET m == ret.provider_metadata
         IN  /\ client.issuer = m.issuer
             /\ client.oauth2_client.auth_url = m.authorization_endpoint
             /\ client.refresh_oauth2_client.auth_url = m.authorization_endpoint
             /\ client.oauth2_client.token_url = m.token_endpoint
             /\ client.refresh_oauth2_client.token_url = m.token_endpoint
             /\ client.userinfo_endpoint = m.userinfo_endpoint
             /\ client.jwks = m.jwks
    /\ ret.kind = "id_token_verifier" =>
         /\ ret.verifier.client_id = client.client_id
         /\ ret.verifier.issuer = client.issuer
         /\ ret.verifier.jwks = client.jwks
    /\ (ret.kind = "user_info" /\ ret.result.ok) =>
         LET v == ret.result.value.signed_response_verifier
         IN  /\ v.client_id = client.client_id
             /\ v.issuer = client.issuer
             /\ v.jwks = client.jwks

C24_Witness ==
    /\ ret.kind = "user_info"
    /\ ret.result.ok
    /\ ret.result.value.signed_response_verifier.issuer = OtherIssuerValue
    /\ ret.result.value.signed_response_verifier.jwks = ProviderJwks
    /\ ret.result.value.signed_response_verifier.client_id = ClientIdValue
    /\ Len(net) = 2

(***************************************************************************)
(* C25: nonce_fn has not been invoked before authorize_url and has been    *)
(* invoked exactly once from then on, before the first builder call and    *)
(* after url(); the nonce it returned is the one the request holds through *)
(* every builder call and the one url() emits and returns.                 *)
(***************************************************************************)
C25_NonceFnInvokedOnce ==
    /\ logs[R].given = None =>
         (logs[R].nonce_fn_calls = 0 /\ reqs[R] = None /\ ~Done(R) /\ Calls(R) = <<>>)
    /\ IsSome(logs[R].given) => logs[R].nonce_fn_calls = 1
    /\ IsSome(reqs[R]) => Unwrap(reqs[R]).nonce = Given(R).nonce
    /\ Done(R) =>
         /\ Out(R).nonce = Given(R).nonce
         /\ Once(Query(R), <<"nonce">>)
         /\ ValueOf(Query(R), <<"nonce">>) = Given(R).nonce

C25_Witness ==
    /\ Done(R)
    /\ Len(Calls(R)) = 2
    /\ logs[R].nonce_fn_calls = 1
    /\ Given(R).nonce = <<"NONCE9">>
    /\ Has(Query(R), <<"nonce">>)
    /\ Query(R)[Pos(Query(R), <<"nonce">>)].value = <<"NONCE9">>

====
